---- MODULE Spec2Model ----
(***************************************************************************)
(* A model of the food tracker of src/main.py: the relational store (the   *)
(* users, food_items and notifications tables), the request handlers that  *)
(* read and write it, the expiry sweep check_and_send_notifications and    *)
(* the statistics calculator calculate_user_stats.                         *)
(*                                                                         *)
(* Dates are day numbers (calculate_days_until_expiry truncates both dates *)
(* to midnight, so only the day matters).  Money is in thousandths of a    *)
(* currency unit, so that round(x, 2) is a real operation.  Fields that no *)
(* handler reads back (password hash, phone, item name, barcode, category, *)
(* quantity, image path, notification message and timestamp) are left out. *)
(***************************************************************************)
EXTENDS Integers, Sequences, FiniteSets, Bags, TLC

VARIABLES
    users,          \* users table: id -> row
    items,          \* food_items table: id -> row
    notifications,  \* notifications table: a bag of rows (the id is never read)
    sessions,       \* user ids for which a signed session cookie exists
    today,          \* the day datetime.now() falls on
    response,       \* HTTP status of the last response
    stats,          \* the statistics the last response shows (NoStats: none)
    runs,           \* the position of each in-flight check_and_send_notifications
    overlap         \* whether two sweeps have ever been in flight together

vars == <<users, items, notifications, sessions, today, response, stats, runs, overlap>>

----------------------------------------------------------------------------
(* Bounds of the model *)

MaxUsers == 2           \* largest user id signup hands out; usernames and e-mails
MaxItems == 2           \* largest food item id add-item hands out
MaxNotifications == 2   \* add-item is not taken once this many notifications exist

Usernames == 1..MaxUsers
Emails == 1..MaxUsers
\* The days the clock is observed on, and the expiry date the add-item form
\* sends: together they give days_left = 32, 30, 7, 1, 0, -1.  LastDays are
\* the days around the expiry date.
Days == {0, 2, 25, 31, 32, 33}
LastDays == {31, 32, 33}
ExpiryDates == {32}
\* Prices the add-item form sends (thousandths); NoPrice is the omitted field.
NoPrice == -1
Prices == {NoPrice, 0, 2, 3000}
ItemPrices == {NoPrice}

----------------------------------------------------------------------------
(* Program constants *)

NoSession == 0          \* request.session.get("user_id") of a request without cookie
MonthThreshold == 30
WeekThreshold == 7
DayThreshold == 1
FallbackPrice == 5000   \* 5.0

NotificationTypes == {"month", "week", "day", "expired"}

----------------------------------------------------------------------------
(* Helpers *)

Max(S) == CHOOSE x \in S : \A y \in S : y <= x
Min(S) == CHOOSE x \in S : \A y \in S : x <= y

\* SQLite gives a row of an INTEGER PRIMARY KEY table (no AUTOINCREMENT) the
\* largest rowid in the table plus one: the id of a deleted last row is reused.
NextId(table) == IF DOMAIN table = {} THEN 1 ELSE Max(DOMAIN table) + 1

Insert(table, row) == [i \in DOMAIN table \cup {NextId(table)} |->
                          IF i \in DOMAIN table THEN table[i] ELSE row]

Delete(table, ids) == [i \in DOMAIN table \ ids |-> table[i]]

RECURSIVE SumOver(_, _)
SumOver(f, S) == IF S = {} THEN 0
                 ELSE LET x == CHOOSE y \in S : TRUE IN f[x] + SumOver(f, S \ {x})

Notification(item_id, item, notif_type) ==
    [user_id |-> item.user_id, food_item_id |-> item_id, notification_type |-> notif_type]

\* How many notification rows have this food_item_id and notification_type.
CountOf(nts, item_id, notif_type) ==
    LET rows == {n \in BagToSet(nts) : n.food_item_id = item_id
                                       /\ n.notification_type = notif_type}
    IN SumOver([n \in rows |-> CopiesIn(n, nts)], rows)

NotificationsOf(nts, item_id) ==
    [t \in NotificationTypes |-> CountOf(nts, item_id, t)]

----------------------------------------------------------------------------
(* Security utils *)

\* require_login: the session's user id, or 401.
require_login(sid) == IF sid = NoSession THEN 401 ELSE 200

\* Mutation of require_admin: the is_admin test is left out.
require_admin_any_user(sid) == IF require_login(sid) # 200 THEN 401 ELSE 200

\* require_admin: 401 without session, 403 unless the session's user exists
\* and is an admin.
require_admin(sid) ==
    IF require_login(sid) # 200 THEN 401
    ELSE IF sid \notin DOMAIN users \/ ~users[sid].is_admin THEN 403
    ELSE 200

\* get_current_user: 401 without session, 404 when the user row is gone.
get_current_user(sid) ==
    IF require_login(sid) # 200 THEN 401
    ELSE IF sid \notin DOMAIN users THEN 404
    ELSE 200

----------------------------------------------------------------------------
(* Food tracking utils *)

calculate_days_until_expiry(expiry_date, now) == expiry_date - now

send_notification(nts, item_id, item, notif_type) ==
    nts (+) SetToBag({Notification(item_id, item, notif_type)})

\* notification_types_sent of one item.
notification_types_sent(nts, item_id) ==
    {n.notification_type : n \in {m \in BagToSet(nts) : m.food_item_id = item_id}}

\* Mutation of SweepExpired: the notification is recorded, the flag is not set.
SweepExpiredUnflagged(db, item_id) ==
    [items |-> db.items,
     notifications |-> send_notification(db.notifications, item_id,
                                         db.items[item_id], "expired")]

\* The expired branch of the loop body: flag the item, record the notification.
SweepExpired(db, item_id) ==
    [items |-> [db.items EXCEPT ![item_id].is_expired = TRUE],
     notifications |-> send_notification(db.notifications, item_id,
                                         db.items[item_id], "expired")]

\* Mutation of SweepThreshold: the history is not consulted.
SweepThresholdUnchecked(nts, item_id, item, days_left, sent, threshold, notif_type) ==
    IF days_left <= threshold
    THEN send_notification(nts, item_id, item, notif_type)
    ELSE nts

\* One threshold of the loop body, against the history read before the three.
SweepThreshold(nts, item_id, item, days_left, sent, threshold, notif_type) ==
    IF days_left <= threshold /\ notif_type \notin sent
    THEN send_notification(nts, item_id, item, notif_type)
    ELSE nts

\* The loop body of check_and_send_notifications for one item.
SweepItem(db, item_id, now) ==
    LET item == db.items[item_id]
        days_left == calculate_days_until_expiry(item.expiry_date, now)
    IN IF days_left < 0
       THEN SweepExpired(db, item_id)
       ELSE LET sent == notification_types_sent(db.notifications, item_id)
                n1 == SweepThreshold(db.notifications, item_id, item, days_left,
                                     sent, MonthThreshold, "month")
                n2 == SweepThreshold(n1, item_id, item, days_left,
                                     sent, WeekThreshold, "week")
                n3 == SweepThreshold(n2, item_id, item, days_left,
                                     sent, DayThreshold, "day")
            IN [items |-> db.items, notifications |-> n3]

RECURSIVE SweepLoop(_, _, _)
SweepLoop(db, todo, now) ==
    IF todo = {} THEN db
    ELSE LET i == Min(todo) IN SweepLoop(SweepItem(db, i, now), todo \ {i}, now)

\* Mutation of SweepQuery: the is_expired filter is left out.
SweepQueryAll(its) == DOMAIN its

\* The items the sweep's query returns: every row not flagged expired.
SweepQuery(its) == {i \in DOMAIN its : ~its[i].is_expired}

check_and_send_notifications(its, nts, now) ==
    SweepLoop([items |-> its, notifications |-> nts], SweepQuery(its), now)

\* `i.price or 5.0`: Python's `or` takes the right side when the left is falsy,
\* and both None and 0.0 are falsy.
PriceOrFallback(price) == IF price = NoPrice \/ price = 0 THEN FallbackPrice ELSE price

\* round(x, 2) of a non-negative amount in thousandths (no sum of Prices is a tie).
Round2(x) == ((x + 5) \div 10) * 10

\* round(x, 1) of expired / total * 100, in tenths of a percent.
WastePercentage(expired, total) ==
    IF total > 0 THEN (2000 * expired + total) \div (2 * total) ELSE 0

calculate_user_stats(its, user_id) ==
    LET all_items == {i \in DOMAIN its : its[i].user_id = user_id}
        expired == {i \in all_items : its[i].is_expired}
        used == {i \in all_items : its[i].is_used}
        active == {i \in all_items : ~its[i].is_expired /\ ~its[i].is_used}
        cost == [i \in all_items |-> PriceOrFallback(its[i].price)]
    IN [total_items |-> Cardinality(all_items),
        expired_items |-> Cardinality(expired),
        used_items |-> Cardinality(used),
        active_items |-> Cardinality(active),
        money_saved |-> Round2(SumOver(cost, used)),
        money_wasted |-> Round2(SumOver(cost, expired)),
        waste_percentage |-> WastePercentage(Cardinality(expired), Cardinality(all_items))]

----------------------------------------------------------------------------
(* The state after construction: empty tables, no cookie, no request served *)

NoStats == [total_items |-> 0, expired_items |-> 0, used_items |-> 0,
            active_items |-> 0, money_saved |-> 0, money_wasted |-> 0,
            waste_percentage |-> 0]

Idle == [pc |-> "idle", todo |-> {}, item |-> 0, days_left |-> 0, sent |-> {}]
Runners == {1, 2}

Init ==
    /\ users = << >>
    /\ items = << >>
    /\ notifications = EmptyBag
    /\ sessions = {}
    /\ today = Min(LastDays)
    /\ response = 200
    /\ stats = NoStats
    /\ runs = [p \in Runners |-> Idle]
    /\ overlap = FALSE

\* What a request made by a browser can carry as its session.
Cookies == sessions \cup {NoSession}

Reject(status) ==
    /\ response' = status
    /\ stats' = NoStats
    /\ UNCHANGED <<users, items, notifications, sessions, today, runs, overlap>>

----------------------------------------------------------------------------
(* Auth routes *)

\* Mutation of IsFirstUser: an off-by-one in the count.
IsFirstUserOffByOne(table) == Cardinality(DOMAIN table) <= 1

\* db.query(User).count() == 0
IsFirstUser(table) == DOMAIN table = {}

Signup(username, email) ==
    LET existing_user == {u \in DOMAIN users : users[u].username = username
                                               \/ users[u].email = email}
        is_first_user == IsFirstUser(users)
    IN IF existing_user # {}
       THEN Reject(200)
       ELSE /\ NextId(users) <= MaxUsers
            /\ users' = Insert(users, [username |-> username, email |-> email,
                                       is_admin |-> is_first_user,
                                       is_approved |-> is_first_user])
            /\ response' = 302
            /\ stats' = NoStats
            /\ UNCHANGED <<items, notifications, sessions, today, runs, overlap>>

\* password_ok: whether the submitted password hashes to the stored one.
Login(username, password_ok) ==
    LET user == {u \in DOMAIN users : users[u].username = username}
    IN IF user = {} \/ ~password_ok
       THEN Reject(200)
       ELSE LET u == CHOOSE x \in user : TRUE
            IN IF ~users[u].is_approved
               THEN Reject(200)
               ELSE /\ sessions' = sessions \cup {u}
                    /\ response' = 302
                    /\ stats' = NoStats
                    /\ UNCHANGED <<users, items, notifications, today, runs, overlap>>

Logout(sid) ==
    /\ sessions' = sessions \ {sid}
    /\ response' = 302
    /\ stats' = NoStats
    /\ UNCHANGED <<users, items, notifications, today, runs, overlap>>

----------------------------------------------------------------------------
(* User routes *)

\* The dashboard's own loop over the user's items that are not used: it flags
\* every one past its expiry date and not yet flagged.
DashboardAutoMark(its, user_id, now) ==
    [i \in DOMAIN its |->
        IF /\ its[i].user_id = user_id
           /\ ~its[i].is_used
           /\ calculate_days_until_expiry(its[i].expiry_date, now) < 0
           /\ ~its[i].is_expired
        THEN [its[i] EXCEPT !.is_expired = TRUE]
        ELSE its[i]]

\* midnight = 1 when the day changes between the sweep and the loop that
\* follows it: each calls datetime.now() on its own.
Dashboard(sid, midnight) ==
    IF get_current_user(sid) # 200
    THEN Reject(get_current_user(sid))
    ELSE LET swept == check_and_send_notifications(items, notifications, today)
             marked == DashboardAutoMark(swept.items, sid, today + midnight)
         IN /\ today + midnight \in Days
            /\ today' = today + midnight
            /\ response' = 200
            /\ items' = marked
            /\ notifications' = swept.notifications
            /\ stats' = calculate_user_stats(marked, sid)
            /\ UNCHANGED <<users, sessions, runs, overlap>>

AddItem(sid, expiry, price) ==
    IF get_current_user(sid) # 200
    THEN Reject(get_current_user(sid))
    ELSE /\ NextId(items) <= MaxItems
         /\ BagCardinality(notifications) < MaxNotifications
         /\ items' = Insert(items, [user_id |-> sid, expiry_date |-> expiry,
                                    price |-> price, is_expired |-> FALSE,
                                    is_used |-> FALSE])
         /\ response' = 302
         /\ stats' = NoStats
         /\ UNCHANGED <<users, notifications, sessions, today, runs, overlap>>

DeleteItem(sid, item_id) ==
    IF get_current_user(sid) # 200
    THEN Reject(get_current_user(sid))
    ELSE /\ items' = IF item_id \in DOMAIN items /\ items[item_id].user_id = sid
                     THEN Delete(items, {item_id})
                     ELSE items
         /\ response' = 302
         /\ stats' = NoStats
         /\ UNCHANGED <<users, notifications, sessions, today, runs, overlap>>

MarkItemUsed(sid, item_id) ==
    IF get_current_user(sid) # 200
    THEN Reject(get_current_user(sid))
    ELSE /\ items' = IF item_id \in DOMAIN items /\ items[item_id].user_id = sid
                     THEN [items EXCEPT ![item_id].is_used = TRUE]
                     ELSE items
         /\ response' = 302
         /\ stats' = NoStats
         /\ UNCHANGED <<users, notifications, sessions, today, runs, overlap>>

Statistics(sid) ==
    IF get_current_user(sid) # 200
    THEN Reject(get_current_user(sid))
    ELSE /\ stats' = calculate_user_stats(items, sid)
         /\ response' = 200
         /\ UNCHANGED <<users, items, notifications, sessions, today, runs, overlap>>

----------------------------------------------------------------------------
(* Admin routes *)

ApproveUser(sid, user_id) ==
    IF require_admin(sid) # 200
    THEN Reject(require_admin(sid))
    ELSE /\ users' = IF user_id \in DOMAIN users
                     THEN [users EXCEPT ![user_id].is_approved = TRUE]
                     ELSE users
         /\ response' = 302
         /\ stats' = NoStats
         /\ UNCHANGED <<items, notifications, sessions, today, runs, overlap>>

\* Mutation of CascadeDelete: the relationship has no delete cascade.
CascadeNone(its, user_id) == its

\* db.delete(user) with cascade="all, delete-orphan" on User.food_items: the
\* user's items go with the user; notifications are not related and stay.
CascadeDelete(its, user_id) ==
    Delete(its, {i \in DOMAIN its : its[i].user_id = user_id})

DeleteUser(sid, user_id) ==
    IF require_admin(sid) # 200
    THEN Reject(require_admin(sid))
    ELSE IF user_id = sid \/ user_id \notin DOMAIN users
    THEN Reject(302)
    ELSE /\ users' = Delete(users, {user_id})
         /\ items' = CascadeDelete(items, user_id)
         /\ response' = 302
         /\ stats' = NoStats
         /\ UNCHANGED <<notifications, sessions, today, runs, overlap>>

CheckNotifications ==
    LET swept == check_and_send_notifications(items, notifications, today)
    IN /\ response' = 200
       /\ stats' = NoStats
       /\ items' = swept.items
       /\ notifications' = swept.notifications
       /\ UNCHANGED <<users, sessions, today, runs, overlap>>

\* Time passes between two requests.
AdvanceDay(d) ==
    /\ d > today
    /\ today' = d
    /\ UNCHANGED <<users, items, notifications, sessions, response, stats, runs, overlap>>

----------------------------------------------------------------------------
UserIds == 1..MaxUsers
ItemIds == 1..MaxItems

\* Every request that writes the store, served one at a time.  The pages that
\* only read it (statistics, notifications, recipes, scanner, the admin
\* dashboard and the forms) change nothing and are not steps here; the
\* statistics page is a step of SpecStats.
Next ==
    \/ \E n \in Usernames, e \in Emails : Signup(n, e)
    \/ \E n \in Usernames, ok \in BOOLEAN : Login(n, ok)
    \/ \E s \in Cookies : Logout(s)
    \/ \E s \in Cookies, m \in {0, 1} : Dashboard(s, m)
    \/ \E s \in Cookies, e \in ExpiryDates : AddItem(s, e, NoPrice)
    \/ \E s \in Cookies, i \in ItemIds : DeleteItem(s, i)
    \/ \E s \in Cookies, i \in ItemIds : MarkItemUsed(s, i)
    \/ \E s \in Cookies, u \in UserIds : ApproveUser(s, u)
    \/ \E s \in Cookies, u \in UserIds : DeleteUser(s, u)
    \/ CheckNotifications
    \/ \E d \in LastDays : AdvanceDay(d)

Spec == Init /\ [][Next]_vars

----------------------------------------------------------------------------
(* The life of the items alone: an admin and an approved user, both logged  *)
(* in (the state after two signups, one approval and two logins), and the   *)
(* clock observed on every day of Days.                                     *)

TwoUsers == Insert(Insert(<< >>, [username |-> 1, email |-> 1,
                                  is_admin |-> TRUE, is_approved |-> TRUE]),
                   [username |-> 2, email |-> 2,
                    is_admin |-> FALSE, is_approved |-> TRUE])

InitItems ==
    /\ users = TwoUsers
    /\ items = << >>
    /\ notifications = EmptyBag
    /\ sessions = DOMAIN TwoUsers
    /\ today = Min(Days)
    /\ response = 200
    /\ stats = NoStats
    /\ runs = [p \in Runners |-> Idle]
    /\ overlap = FALSE

NextItems ==
    \/ \E s \in Cookies, m \in {0, 1} : Dashboard(s, m)
    \/ \E s \in Cookies, e \in ExpiryDates, p \in ItemPrices : AddItem(s, e, p)
    \/ \E s \in Cookies, i \in ItemIds : DeleteItem(s, i)
    \/ \E s \in Cookies, i \in ItemIds : MarkItemUsed(s, i)
    \/ CheckNotifications
    \/ \E d \in Days : AdvanceDay(d)

SpecItems == InitItems /\ [][NextItems]_vars

----------------------------------------------------------------------------
(* The statistics calculator on tables of priced items: the state after     *)
(* some add-item and mark-used requests and before any sweep.               *)

NewItems == [user_id : DOMAIN TwoUsers, expiry_date : ExpiryDates, price : Prices,
             is_expired : {FALSE}, is_used : BOOLEAN]

InitStats ==
    /\ users = TwoUsers
    /\ \E n \in 0..MaxItems : items \in [1..n -> NewItems]
    /\ notifications = EmptyBag
    /\ sessions = DOMAIN TwoUsers
    /\ today \in LastDays
    /\ response = 200
    /\ stats = NoStats
    /\ runs = [p \in Runners |-> Idle]
    /\ overlap = FALSE

NextStats ==
    \/ \E s \in Cookies : Statistics(s)
    \/ CheckNotifications
    \/ \E d \in LastDays : AdvanceDay(d)

SpecStats == InitStats /\ [][NextStats]_vars

----------------------------------------------------------------------------
(* Two /check-notifications requests served by two threads.  Each statement *)
(* that reads or commits is one step; a commit is atomic in the store.      *)

\* Line 131: the query that snapshots the items to visit.
RunQuery(p) ==
    /\ runs[p].pc = "idle"
    /\ runs' = [runs EXCEPT ![p] = [Idle EXCEPT !.pc = "loop",
                                                !.todo = SweepQuery(items)]]
    /\ overlap' = (overlap \/ \E q \in Runners \ {p} : runs[q].pc # "idle")
    /\ UNCHANGED <<users, items, notifications, sessions, today, response, stats>>

\* Lines 133-146: the next item; the expired branch commits the flag and the
\* notification together, the other branch reads the item's history.
RunItem(p) ==
    /\ runs[p].pc = "loop"
    /\ runs[p].todo # {}
    /\ LET i == Min(runs[p].todo)
           days_left == calculate_days_until_expiry(items[i].expiry_date, today)
           db == SweepExpired([items |-> items, notifications |-> notifications], i)
       IN IF days_left < 0
          THEN /\ items' = db.items
               /\ notifications' = db.notifications
               /\ runs' = [runs EXCEPT ![p].todo = @ \ {i}]
          ELSE /\ runs' = [runs EXCEPT ![p] =
                               [pc |-> "month", todo |-> @.todo \ {i}, item |-> i,
                                days_left |-> days_left,
                                sent |-> notification_types_sent(notifications, i)]]
               /\ UNCHANGED <<items, notifications>>
    /\ UNCHANGED <<users, sessions, today, response, stats, overlap>>

ThresholdOf(pc) == CASE pc = "month" -> MonthThreshold
                     [] pc = "week" -> WeekThreshold
                     [] pc = "day" -> DayThreshold

AfterThreshold(pc) == CASE pc = "month" -> "week"
                        [] pc = "week" -> "day"
                        [] pc = "day" -> "loop"

\* Lines 148-159: one of the three threshold checks, against the history
\* read in RunItem.
RunThreshold(p) ==
    /\ runs[p].pc \in {"month", "week", "day"}
    /\ LET r == runs[p]
       IN /\ notifications' = SweepThreshold(notifications, r.item, items[r.item],
                                             r.days_left, r.sent,
                                             ThresholdOf(r.pc), r.pc)
          /\ runs' = [runs EXCEPT ![p].pc = AfterThreshold(r.pc)]
    /\ UNCHANGED <<users, items, sessions, today, response, stats, overlap>>

\* Line 572: the loop is over and the response is sent.
RunDone(p) ==
    /\ runs[p].pc = "loop"
    /\ runs[p].todo = {}
    /\ runs' = [runs EXCEPT ![p] = Idle]
    /\ response' = 200
    /\ stats' = NoStats
    /\ UNCHANGED <<users, items, notifications, sessions, today, overlap>>

FreshItems == [user_id : DOMAIN TwoUsers, expiry_date : ExpiryDates, price : {NoPrice},
               is_expired : {FALSE}, is_used : {FALSE}]

InitRace ==
    /\ users = TwoUsers
    /\ \E n \in 1..MaxItems : items \in [1..n -> FreshItems]
    /\ notifications = EmptyBag
    /\ sessions = DOMAIN TwoUsers
    /\ today = Min(LastDays)
    /\ response = 200
    /\ stats = NoStats
    /\ runs = [p \in Runners |-> Idle]
    /\ overlap = FALSE

NextRace ==
    \/ \E p \in Runners : RunQuery(p)
    \/ \E p \in Runners : RunItem(p)
    \/ \E p \in Runners : RunThreshold(p)
    \/ \E p \in Runners : RunDone(p)
    \/ \E d \in LastDays : AdvanceDay(d)

SpecRace == InitRace /\ [][NextRace]_vars

----------------------------------------------------------------------------
(* Properties *)

\* A dashboard request that gets past get_current_user.
DashboardView == \E s \in Cookies, m \in {0, 1} :
                    get_current_user(s) = 200 /\ Dashboard(s, m)

\* A request that runs the sweep.
SweepRequest == CheckNotifications \/ DashboardView

\* days_left of a row of the food_items table, on the current day.
DaysLeft(i) == calculate_days_until_expiry(items[i].expiry_date, today)

\* C1: with requests served one at a time, the notifications table holds at
\* most one row for each (food_item_id, notification_type) pair, for all
\* four types.
C1_AtMostOnePerPair ==
    \A i \in ItemIds, t \in NotificationTypes : CountOf(notifications, i, t) <= 1

\* C2: a dashboard view flags every item whose expiry date is before today and
\* that is not flagged yet, and records exactly one new 'expired' notification
\* for it and nothing else; a dashboard view or a /check-notifications call
\* changes neither the row nor the notifications of an item already flagged.
FlagsExpiredOnce ==
    \A i \in DOMAIN items :
        (~items[i].is_expired /\ DaysLeft(i) < 0) =>
            /\ i \in DOMAIN items'
            /\ items'[i] = [items[i] EXCEPT !.is_expired = TRUE]
            /\ NotificationsOf(notifications', i) =
                   [NotificationsOf(notifications, i) EXCEPT !["expired"] = @ + 1]

LeavesFlaggedAlone ==
    \A i \in DOMAIN items :
        items[i].is_expired =>
            /\ i \in DOMAIN items'
            /\ items'[i] = items[i]
            /\ NotificationsOf(notifications', i) = NotificationsOf(notifications, i)

C2_DashboardMarksExpiredOnce ==
    [][ /\ DashboardView => (FlagsExpiredOnce /\ LeavesFlaggedAlone)
        /\ CheckNotifications => LeavesFlaggedAlone
      ]_vars

\* C2 witness: the dashboard has been rendered (its statistics count an
\* expired item of the viewer) and the item it flagged has one 'expired'
\* notification.
C2_Witness ==
    /\ response = 200
    /\ stats.expired_items >= 1
    /\ \E i \in DOMAIN items : /\ items[i].is_expired
                               /\ DaysLeft(i) < 0
                               /\ CountOf(notifications, i, "expired") = 1

\* C3: after a run of the sweep, an item not flagged expired whose days_left
\* is exactly 30 (7, 1) has exactly one 'month' ('week', 'day') notification,
\* whether the run is the first or a further one on that day.
OneNotificationAtThreshold ==
    \A i \in DOMAIN items :
        ~items[i].is_expired =>
            /\ DaysLeft(i) = MonthThreshold => CountOf(notifications', i, "month") = 1
            /\ DaysLeft(i) = WeekThreshold => CountOf(notifications', i, "week") = 1
            /\ DaysLeft(i) = DayThreshold => CountOf(notifications', i, "day") = 1

C3_OneThresholdNotification ==
    [][ SweepRequest => OneNotificationAtThreshold ]_vars

\* C3 witness: one day before expiry, after the sweep has run on this and on
\* earlier days, each of the three threshold notifications is recorded once.
C3_Witness ==
    \E i \in DOMAIN items :
        /\ ~items[i].is_expired
        /\ DaysLeft(i) = DayThreshold
        /\ CountOf(notifications, i, "month") = 1
        /\ CountOf(notifications, i, "week") = 1
        /\ CountOf(notifications, i, "day") = 1

\* An approve request of an admin for this user.
ApprovedByAdmin(u) == \E s \in Cookies : require_admin(s) = 200 /\ ApproveUser(s, u)

\* C4: the first user ever registered is created admin and approved; every
\* later user is created neither, keeps is_admin false, and becomes approved
\* only by an admin's approve request.  (The users table is never empty again
\* once a user exists, so the first user ever is the one created into an
\* empty table.)
C4_FirstUserAdmin ==
    [][ /\ DOMAIN users # {} => DOMAIN users' # {}
        /\ \A u \in DOMAIN users' \ DOMAIN users :
               /\ users'[u].is_admin = (DOMAIN users = {})
               /\ users'[u].is_approved = (DOMAIN users = {})
        /\ \A u \in DOMAIN users' \cap DOMAIN users :
               /\ users'[u].is_admin = users[u].is_admin
               /\ users'[u].is_approved # users[u].is_approved =>
                      users'[u].is_approved /\ ApprovedByAdmin(u)
      ]_vars

\* C4 witness: a second user has been registered and then approved.
C4_Witness ==
    \E u \in DOMAIN users : ~users[u].is_admin /\ users[u].is_approved

\* C5: an admin's delete-user request for an existing other user leaves no
\* item owned by that user, and leaves every other item as it was.
ItemsCascaded(u) ==
    /\ u \notin DOMAIN users'
    /\ \A i \in DOMAIN items' : items'[i].user_id # u
    /\ \A i \in DOMAIN items' : i \in DOMAIN items
    /\ \A i \in DOMAIN items :
           items[i].user_id # u => i \in DOMAIN items' /\ items'[i] = items[i]

C5_DeleteUserCascades ==
    [][ \A s \in Cookies, u \in UserIds :
          (require_admin(s) = 200 /\ u # s /\ u \in DOMAIN users) =>
              (ItemsCascaded(u) \/ ~DeleteUser(s, u))
      ]_vars

\* C5 witness: a user who owned an item (a notification for it is on record)
\* has been deleted, and another user's item is still there.
C5_Witness ==
    /\ response = 302
    /\ DOMAIN items # {}
    /\ \E n \in BagToSet(notifications) : n.user_id \notin DOMAIN users

StoreUnchanged == UNCHANGED <<users, items, notifications>>

\* C6: money_saved is the (rounded) sum of the prices of the used items and
\* money_wasted that of the expired items, the fallback standing in for a
\* price only when the price is absent.
PriceOrFallbackWhenAbsent(price) == IF price = NoPrice THEN FallbackPrice ELSE price

C6_FallbackOnlyWhenAbsent ==
    \A u \in DOMAIN users :
        LET mine == {i \in DOMAIN items : items[i].user_id = u}
            cost == [i \in mine |-> PriceOrFallbackWhenAbsent(items[i].price)]
            result == calculate_user_stats(items, u)
        IN /\ result.money_saved = Round2(SumOver(cost, {i \in mine : items[i].is_used}))
           /\ result.money_wasted = Round2(SumOver(cost, {i \in mine : items[i].is_expired}))

\* C7: an approve or delete-user request without session is answered 401, one
\* with the session of anyone but an admin 403, and neither changes the users,
\* items or notifications.
Refused(status) == response' = status /\ StoreUnchanged

AdminRequest(s) == \E u \in UserIds : ApproveUser(s, u) \/ DeleteUser(s, u)

C7_AdminRoutesGuarded ==
    [][ \A s \in Cookies :
          /\ s = NoSession => (Refused(401) \/ ~AdminRequest(s))
          /\ (s # NoSession /\ ~(s \in DOMAIN users /\ users[s].is_admin)) =>
                 (Refused(403) \/ ~AdminRequest(s))
      ]_vars

\* C7 witness: a logged-in user who is no admin has been answered 403.
C7_Witness ==
    /\ response = 403
    /\ \E s \in sessions : s \in DOMAIN users /\ ~users[s].is_admin
    /\ DOMAIN items # {}

Duplicate == \E i \in ItemIds, t \in NotificationTypes : CountOf(notifications, i, t) >= 2

\* C8: two notifications for one (food_item_id, notification_type) pair arise
\* when two runs of the sweep are in flight together, and only then: from the
\* same starting states, runs that never interleave produce no duplicate.
C8_DuplicateOnlyWhenInterleaved == Duplicate => overlap

\* C8 witness: a duplicate has been inserted.
C8_Witness == Duplicate /\ overlap

\* C9: no item is both used and expired, so that no item counts towards both
\* money_saved and money_wasted.
C9_NeverUsedAndExpired ==
    \A i \in DOMAIN items : ~(items[i].is_used /\ items[i].is_expired)

\* C10: every item flagged expired has an 'expired' notification.
C10_ExpiredHasNotification ==
    \A i \in DOMAIN items :
        items[i].is_expired => CountOf(notifications, i, "expired") >= 1

====
